---- MODULE Spec2Model ----
(***************************************************************************)
(* A model of os-stats.py: the identity resolver (__get_users_from_file),  *)
(* the contribution fetcher (__get_contribution_for_user), the aggregator  *)
(* (__get_aggregate_contributions) and the command-line run (os_stats).    *)
(*                                                                         *)
(* Strings are sequences of one-character strings.  Python values whose    *)
(* type varies (None, a dict, an exception that escapes) are records       *)
(* tagged by a field t.  The script is Python 2 (it calls unicode()).      *)
(*                                                                         *)
(* The --release option only adds two query parameters to the URL (lines   *)
(* 41-42) and is left out; what the remote answers is an input of each     *)
(* fetch.  An exception that nothing catches ends the process with a       *)
(* traceback and status 1.                                                 *)
(***************************************************************************)
EXTENDS Integers, Sequences, FiniteSets, TLC

\* ------------------------------------------------------------- bounds
\* Longest email-list file text, in characters.
MaxFileLen == 4
\* Longest alias file text, in characters.
MaxMapLen == 2
\* Longest email-list file text of a whole run (specification Spec).
MaxRunLen == 3
\* Largest count a response holds.
MaxCount == 2
\* Largest count of a record handed to the aggregator alone.
MaxValue == 1
\* Longest list of records handed to the aggregator alone.
MaxContribs == 2

\* ------------------------------------------------------------ strings
\* The characters str.strip() removes (those that the inputs contain).
Whitespace == {" ", "\n"}

\* All strings over the characters cs of length at most n.
Strings(cs, n) == UNION {[1..k -> cs] : k \in 0..n}

\* str.find(c): the 0-based index of the first c in s, -1 when there is none.
Find(s, c) ==
  IF \E i \in 1..Len(s) : s[i] = c
  THEN (CHOOSE i \in 1..Len(s) : s[i] = c /\ \A j \in 1..(i - 1) : s[j] # c) - 1
  ELSE -1

\* s[0:stop] with Python's slice rules: a negative stop counts from the end,
\* and the result is clipped to the string.
SliceTo(s, stop) ==
  LET n == Len(s)
      e0 == IF stop < 0 THEN stop + n ELSE stop
      e == IF e0 < 0 THEN 0 ELSE IF e0 > n THEN n ELSE e0
  IN SubSeq(s, 1, e)

\* str.strip(): s without its leading and trailing whitespace.
Strip(s) ==
  LET keep == {i \in 1..Len(s) : s[i] \notin Whitespace}
  IN IF keep = {} THEN <<>>
     ELSE LET lo == CHOOSE i \in keep : \A j \in keep : i <= j
              hi == CHOOSE i \in keep : \A j \in keep : j <= i
          IN SubSeq(s, lo, hi)

\* str.split(sep) for a one-character sep: the pieces between the separators
\* (always at least one piece, maybe empty).
RECURSIVE Split(_, _)
Split(s, sep) ==
  LET k == Find(s, sep)
  IN IF k = -1 THEN <<s>>
     ELSE <<SubSeq(s, 1, k)>> \o Split(SubSeq(s, k + 2, Len(s)), sep)

\* The lines a text file yields when iterated: each line keeps its "\n".
RECURSIVE Lines(_)
Lines(text) ==
  LET k == Find(text, "\n")
  IN IF text = <<>> THEN <<>>
     ELSE IF k = -1 THEN <<text>>
     ELSE <<SubSeq(text, 1, k + 1)>> \o Lines(SubSeq(text, k + 2, Len(text)))

\* Code points of the characters the inputs contain (the order sort() uses).
Ord(c) ==
  CASE c = "\n" -> 10 [] c = " " -> 32 [] c = "," -> 44 [] c = ":" -> 58
    [] c = "@" -> 64 [] c = "a" -> 97 [] c = "b" -> 98

\* s < t in the order of Python strings (lexicographic by code point).
LexLess(s, t) ==
  \E k \in 0..Len(s) :
    /\ k <= Len(t)
    /\ \A i \in 1..k : s[i] = t[i]
    /\ \/ k = Len(s) /\ k < Len(t)
       \/ k < Len(s) /\ k < Len(t) /\ Ord(s[k + 1]) < Ord(t[k + 1])

\* -------------------------------------------------------------- state
VARIABLES
  params,     \* the command line: which of --user, --file, --map-file is given
  files,      \* the two files on disk: email list and alias file
  pc,         \* where the run is: start, resolve, fetch, done
  emails,     \* __get_users_from_file: the tokens of the email list
  effs,       \* the effective users computed so far by the comprehension
  users,      \* the resolved users, set(...) of effs
  remaining,  \* the users the for loop has not reached yet
  fetches,    \* one entry per call of __get_contribution_for_user, in order
  unknown,    \* __display_aggregate_stats: users without data
  contribs,   \* __display_aggregate_stats: the records found
  aggregate,  \* the value __get_aggregate_contributions returned
  output,     \* what was printed, in order
  status,     \* the exit status, -1 while the process runs
  exc,        \* the exception that ended the run, "none" otherwise
  reads       \* how many times get_tokens opened each file

vars == <<params, files, pc, emails, effs, users, remaining, fetches, unknown,
          contribs, aggregate, output, status, exc, reads>>

\* ---------------------------------------------------------- resolver
\* A file on disk: unreadable (open or read raises), or a text.
Unreadable == [readable |-> FALSE, text |-> <<>>]
FileStates(cs, n) == {Unreadable} \cup {[readable |-> TRUE, text |-> s] : s \in Strings(cs, n)}

\* get_tokens: the comma-delimited tokens of the file's first line; None when
\* the file has no line; the process exits when the file cannot be read.
get_tokens(file) ==
  IF ~file.readable THEN [t |-> "exit"]
  ELSE IF Lines(file.text) = <<>> THEN [t |-> "None"]
  ELSE [t |-> "tokens", v |-> Split(Lines(file.text)[1], ",")]

\* The dict built from the alias tokens: a later entry for a key replaces an
\* earlier one.  The entries are kept as <<key, value>> pairs, in file order.
user_map_pairs(user_map_list) ==
  [i \in 1..Len(user_map_list) |->
     LET kv == Split(user_map_list[i], ":") IN <<Strip(kv[1]), Strip(kv[2])>>]

user_map_has(pairs, user) == \E i \in 1..Len(pairs) : pairs[i][1] = user

user_map_get(pairs, user) ==
  LET last == CHOOSE i \in 1..Len(pairs) :
                /\ pairs[i][1] = user
                /\ \A j \in (i + 1)..Len(pairs) : pairs[j][1] # user
  IN pairs[last][2]

\* A variant of get_eff_user that reads the alias file for the first email
\* only and looks later emails up in a table kept from that read.
get_eff_user_cached(user, map_given, map_file) ==
  IF ~map_given THEN [t |-> "value", v |-> user, opened |-> 0]
  ELSE LET tk == get_tokens(map_file)
           first == IF reads.map = 0 THEN 1 ELSE 0 IN
    IF tk.t = "exit" THEN [t |-> "exit", opened |-> first]
    ELSE IF tk.t = "None" THEN [t |-> "raise", exc |-> "TypeError", opened |-> first]
    ELSE IF \E i \in 1..Len(tk.v) : Len(Split(tk.v[i], ":")) # 2
      THEN [t |-> "raise", exc |-> "ValueError", opened |-> first]
    ELSE LET pairs == user_map_pairs(tk.v) IN
      [t |-> "value",
       v |-> IF user_map_has(pairs, user) THEN user_map_get(pairs, user) ELSE user,
       opened |-> first]

\* get_eff_user: the user itself without a map path; otherwise the alias file
\* is read and parsed (opened counts that read), and the user is looked up.
get_eff_user(user, map_given, map_file) ==
  IF ~map_given THEN [t |-> "value", v |-> user, opened |-> 0]
  ELSE LET tk == get_tokens(map_file) IN
    IF tk.t = "exit" THEN [t |-> "exit", opened |-> 1]
    ELSE IF tk.t = "None" THEN [t |-> "raise", exc |-> "TypeError", opened |-> 1]
    ELSE IF \E i \in 1..Len(tk.v) : Len(Split(tk.v[i], ":")) # 2
      THEN [t |-> "raise", exc |-> "ValueError", opened |-> 1]
    ELSE LET pairs == user_map_pairs(tk.v) IN
      [t |-> "value",
       v |-> IF user_map_has(pairs, user) THEN user_map_get(pairs, user) ELSE user,
       opened |-> 1]

\* A variant of email_prefix that does not strip.
email_prefix_unstripped(email) == SliceTo(email, Find(email, "@"))

\* email[0:email.find('@')].strip()
email_prefix(email) == Strip(SliceTo(email, Find(email, "@")))

SeqRange(s) == {s[i] : i \in 1..Len(s)}

ErrorReadingFile(which) == [msg |-> "Error reading file", file |-> which]
Traceback(e) == [msg |-> "Traceback", exc |-> e]

\* The process ends: sys.exit(code), or an exception nobody catches.
Exit(code) == /\ pc' = "done" /\ status' = code /\ exc' = "none"
Crash(e) == /\ pc' = "done" /\ status' = 1 /\ exc' = e

\* __get_users_from_file, line 119: emails = get_tokens(path).
GetEmails ==
  /\ pc = "start" /\ ~params.user /\ params.file
  /\ reads' = [reads EXCEPT !.email = @ + 1]
  /\ LET tk == get_tokens(files.email) IN
       \/ /\ tk.t = "exit"
          /\ output' = Append(output, ErrorReadingFile("email"))
          /\ Exit(1)
          /\ UNCHANGED emails
       \/ /\ tk.t = "None"   \* the comprehension iterates over None
          /\ output' = Append(output, Traceback("TypeError"))
          /\ Crash("TypeError")
          /\ UNCHANGED emails
       \/ /\ tk.t = "tokens"
          /\ emails' = tk.v
          /\ pc' = "resolve"
          /\ UNCHANGED <<output, status, exc>>
  /\ UNCHANGED <<params, files, effs, users, remaining, fetches, unknown,
                 contribs, aggregate>>

\* Lines 121-123: one element of the comprehension, get_eff_user of the next
\* email; after the last one, list(set(...)) is returned.
GetEffUser ==
  /\ pc = "resolve"
  /\ LET email == emails[Len(effs) + 1]
         r == get_eff_user(email_prefix(email), params.map_file, files.map)
     IN
       /\ reads' = [reads EXCEPT !.map = @ + r.opened]
       /\ \/ /\ r.t = "exit"
             /\ output' = Append(output, ErrorReadingFile("map"))
             /\ Exit(1)
             /\ UNCHANGED <<effs, users, remaining>>
          \/ /\ r.t = "raise"
             /\ output' = Append(output, Traceback(r.exc))
             /\ Crash(r.exc)
             /\ UNCHANGED <<effs, users, remaining>>
          \/ /\ r.t = "value"
             /\ effs' = Append(effs, r.v)
             /\ IF Len(effs') = Len(emails)
                  THEN /\ users' = SeqRange(effs')
                       /\ remaining' = SeqRange(effs')
                       /\ pc' = "fetch"
                  ELSE UNCHANGED <<users, remaining, pc>>
             /\ UNCHANGED <<output, status, exc>>
  /\ UNCHANGED <<params, files, emails, fetches, unknown, contribs, aggregate>>

\* ----------------------------------------------------------- fetcher
\* What the remote answers to one GET.  The request fails, the body is not
\* JSON, or it is a JSON object whose `contribution` is missing, null or an
\* object; an object has its fields other than `marks`, and `marks` is
\* missing, a number, or a mapping of vote value to count.
MarksValues(votes, counts) ==
  {[t |-> "missing"]} \cup {[t |-> "int", v |-> n] : n \in counts}
  \cup {[t |-> "map", m |-> f] : f \in UNION {[D -> counts] : D \in SUBSET votes}}
Contributions(keys, votes, counts) ==
  {[t |-> "missing"], [t |-> "null"]}
  \cup {[t |-> "object", fields |-> f, marks |-> mk] :
          f \in UNION {[D -> counts] : D \in SUBSET keys},
          mk \in MarksValues(votes, counts)}
ResponsesOver(keys, votes, counts) ==
  {[kind |-> "network_error"], [kind |-> "not_json"]}
  \cup {[kind |-> "json", contribution |-> c] : c \in Contributions(keys, votes, counts)}

\* A variant of SumValues that counts the entries: len(d).
CountValues(d) == Cardinality(DOMAIN d)

\* sum(d.values())
RECURSIVE SumValues(_)
SumValues(d) ==
  IF DOMAIN d = {} THEN 0
  ELSE LET k == CHOOSE k \in DOMAIN d : TRUE
       IN d[k] + SumValues([j \in DOMAIN d \ {k} |-> d[j]])

\* Line 46 inside try/except: requests.get(url).json()['contribution'], None
\* when anything there raises.
TryContribution(resp) ==
  IF resp.kind # "json" THEN [t |-> "None"]
  ELSE IF resp.contribution.t \in {"missing", "null"} THEN [t |-> "None"]
  ELSE [t |-> "dict", fields |-> resp.contribution.fields, marks |-> resp.contribution.marks]

\* bool(ret) of line 50: None and the empty dict are false.
RawTruthy(ret) ==
  ret.t = "dict" /\ (DOMAIN ret.fields # {} \/ ret.marks.t # "missing")

\* Line 52: ret['marks'] = sum(ret['marks'].values()), outside the try.
CollapseMarks(ret) ==
  IF ret.marks.t = "missing" THEN [t |-> "raise", exc |-> "KeyError"]
  ELSE IF ret.marks.t # "map" THEN [t |-> "raise", exc |-> "AttributeError"]
  ELSE [t |-> "dict",
        rec |-> [k \in DOMAIN ret.fields \cup {"marks"} |->
                   IF k = "marks" THEN SumValues(ret.marks.m) ELSE ret.fields[k]]]

\* __get_contribution_for_user: None, a dict (the empty dict as it came), or
\* an exception that escapes.
GetContributionForUser(resp) ==
  LET ret == TryContribution(resp) IN
    IF RawTruthy(ret) THEN CollapseMarks(ret)
    ELSE IF ret.t = "dict" THEN [t |-> "dict", rec |-> <<>>]
    ELSE [t |-> "None"]

\* bool(x) of a value the fetcher or the aggregator returned.
Truthy(x) == x.t = "dict" /\ DOMAIN x.rec # {}

\* -------------------------------------------------------- aggregator
Keys == {"change_request_count", "commit_count", "completed_blueprint_count",
         "drafted_blueprint_count", "email_count", "filed_bug_count", "loc",
         "marks", "patch_set_count", "resolved_bug_count",
         "abandoned_change_requests_count", "translations"}

\* A variant of ZeroRecord that forgets the marks key.
ZeroRecordWithoutMarks == [k \in Keys \ {"marks"} |-> 0]

\* Lines 60-73: the record the sums start from.
ZeroRecord == [k \in Keys |-> 0]

\* A variant of AddContrib that stores the value instead of adding it.
AddContribOverwrite(ret, contrib) ==
  IF ret.t = "raise" THEN ret
  ELSE IF ~(DOMAIN contrib \subseteq DOMAIN ret.rec) THEN [t |-> "raise", exc |-> "KeyError"]
  ELSE [t |-> "dict",
        rec |-> [k \in DOMAIN ret.rec |->
                   IF k \in DOMAIN contrib THEN contrib[k] ELSE ret.rec[k]]]

\* Lines 78-79 for one contribution: ret[key] = ret[key] + contrib[key] for
\* each key of contrib; ret[key] raises KeyError for a key ret lacks.
AddContrib(ret, contrib) ==
  IF ret.t = "raise" THEN ret
  ELSE IF ~(DOMAIN contrib \subseteq DOMAIN ret.rec) THEN [t |-> "raise", exc |-> "KeyError"]
  ELSE [t |-> "dict",
        rec |-> [k \in DOMAIN ret.rec |->
                   IF k \in DOMAIN contrib THEN ret.rec[k] + contrib[k] ELSE ret.rec[k]]]

RECURSIVE AggregateFrom(_, _)
AggregateFrom(ret, contrib_list) ==
  IF contrib_list = <<>> THEN ret
  ELSE AggregateFrom(AddContrib(ret, Head(contrib_list)), Tail(contrib_list))

\* __get_aggregate_contributions
GetAggregateContributions(contrib_list) ==
  AggregateFrom([t |-> "dict", rec |-> ZeroRecord], contrib_list)

\* ------------------------------------------------------------ display
NoDataMessage == [msg |-> "Could not find any OpenStack contribution data for that user."]
ContributionsMessage(rec) == [msg |-> "Contributions:", data |-> rec]
NotFoundMessage(names) == [msg |-> "Users not found on review.openstack.org:", users |-> names]
UnexpectedInputMessage == [msg |-> "Unexpected input."]

\* A variant of display_stats that takes a record of zeros for no data.
display_stats_unless_zero(contrib_data) ==
  IF Truthy(contrib_data) /\ \E k \in DOMAIN contrib_data.rec : contrib_data.rec[k] # 0
    THEN ContributionsMessage(contrib_data.rec) ELSE NoDataMessage

\* __display_stats
display_stats(contrib_data) ==
  IF Truthy(contrib_data) THEN ContributionsMessage(contrib_data.rec) ELSE NoDataMessage

\* The identifier given with --user.
TheUser == <<"a">>

\* __display_unexpected_input, then sys.exit(0).
DisplayUnexpectedInput ==
  /\ pc = "start" /\ ~params.user /\ ~params.file
  /\ output' = Append(output, UnexpectedInputMessage)
  /\ Exit(0)
  /\ UNCHANGED <<params, files, emails, effs, users, remaining, fetches, unknown,
                 contribs, aggregate, reads>>

\* __display_user_stats, then sys.exit(0); the remote answers with one of R.
DisplayUserStats(R) ==
  /\ pc = "start" /\ params.user
  /\ \E resp \in R :
       LET ret == GetContributionForUser(resp) IN
         /\ fetches' = Append(fetches, [user |-> TheUser, resp |-> resp, ret |-> ret])
         /\ IF ret.t = "raise"
              THEN /\ output' = Append(output, Traceback(ret.exc))
                   /\ Crash(ret.exc)
              ELSE /\ output' = Append(output, display_stats(ret))
                   /\ Exit(0)
  /\ UNCHANGED <<params, files, emails, effs, users, remaining, unknown,
                 contribs, aggregate, reads>>

\* Lines 152-157: one turn of the for loop, for a user the loop has not had
\* (a set has no order); after the last user, lines 159-165 and sys.exit(0).
FetchUser(R) ==
  /\ pc = "fetch"
  /\ \E user \in remaining, resp \in R :
       LET ret == GetContributionForUser(resp)
           unknown1 == IF Truthy(ret) THEN unknown ELSE Append(unknown, user)
           contribs1 == IF Truthy(ret) THEN Append(contribs, ret.rec) ELSE contribs
           agg == GetAggregateContributions(contribs1)
       IN
         /\ fetches' = Append(fetches, [user |-> user, resp |-> resp, ret |-> ret])
         /\ remaining' = remaining \ {user}
         /\ IF ret.t = "raise"
              THEN /\ output' = Append(output, Traceback(ret.exc))
                   /\ Crash(ret.exc)
                   /\ UNCHANGED <<unknown, contribs, aggregate>>
              ELSE IF remaining' # {}
              THEN /\ unknown' = unknown1
                   /\ contribs' = contribs1
                   /\ UNCHANGED <<output, pc, status, exc, aggregate>>
              ELSE /\ unknown' = SortSeq(unknown1, LexLess)
                   /\ contribs' = contribs1
                   /\ aggregate' = agg
                   /\ IF agg.t = "raise"
                        THEN /\ output' = output \o <<NotFoundMessage(unknown'), Traceback(agg.exc)>>
                             /\ Crash(agg.exc)
                        ELSE /\ output' = output \o <<NotFoundMessage(unknown'), display_stats(agg)>>
                             /\ Exit(0)
  /\ UNCHANGED <<params, files, emails, effs, users, reads>>

\* The aggregator alone: __get_aggregate_contributions(contribs).
Aggregate ==
  /\ pc = "aggregate"
  /\ aggregate' = GetAggregateContributions(contribs)
  /\ pc' = "done"
  /\ UNCHANGED <<params, files, emails, effs, users, remaining, fetches, unknown,
                 contribs, output, status, exc, reads>>

\* The characters of the email-list files and of the alias files.
EmailChars == {"a", "@", " ", ",", "\n"}
MapChars == {"a", "b", ":"}

NoParams == [user |-> FALSE, file |-> FALSE, map_file |-> FALSE]

Fresh ==
  /\ emails = <<>> /\ effs = <<>> /\ users = {} /\ remaining = {}
  /\ fetches = <<>> /\ unknown = <<>>
  /\ aggregate = [t |-> "None"]
  /\ output = <<>> /\ status = -1 /\ exc = "none"
  /\ reads = [email |-> 0, map |-> 0]

\* The resolver alone: __get_users_from_file on any email list and alias file.
InitResolver ==
  /\ Fresh /\ pc = "start" /\ contribs = <<>>
  /\ params \in {[NoParams EXCEPT !.file = TRUE, !.map_file = m] : m \in BOOLEAN}
  /\ files \in {[email |-> e, map |-> m] :
                  e \in FileStates(EmailChars, MaxFileLen),
                  m \in IF params.map_file THEN FileStates(MapChars, MaxMapLen)
                                           ELSE {Unreadable}}

NextResolver == GetEmails \/ GetEffUser

SpecResolver == InitResolver /\ [][NextResolver]_vars

\* ------------------------------------------------- the fetcher alone
\* The keys a response may hold besides marks; "bogus" is none of Keys.
ResponseKeys == {"commit_count", "loc", "bogus"}
Votes == {"-1", "1"}
Responses == ResponsesOver(ResponseKeys, Votes, 0..MaxCount)

\* A single-user run (-u): one fetch, displayed.
InitUser ==
  /\ Fresh /\ pc = "start" /\ contribs = <<>>
  /\ params \in {[NoParams EXCEPT !.user = TRUE, !.file = f] : f \in BOOLEAN}
  /\ files = [email |-> Unreadable, map |-> Unreadable]

NextUser == DisplayUserStats(Responses)

SpecUser == InitUser /\ [][NextUser]_vars

\* ---------------------------------------------- the aggregator alone
\* The records handed to the aggregator: any of two known keys and of one
\* key that is none of Keys.
AggregateKeys == {"commit_count", "marks", "bogus"}
AggregateRecords == UNION {[D -> 0..MaxValue] : D \in SUBSET AggregateKeys}

InitAggregate ==
  /\ Fresh
  /\ params = NoParams
  /\ files = [email |-> Unreadable, map |-> Unreadable]
  /\ pc = "aggregate"
  /\ contribs \in UNION {[1..n -> AggregateRecords] : n \in 0..MaxContribs}

NextAggregate == Aggregate

SpecAggregate == InitAggregate /\ [][NextAggregate]_vars

\* ------------------------------------------------------ the whole run
\* The answers of the remote in a whole run: a subset of Responses.
RunResponses == ResponsesOver({"commit_count", "bogus"}, {"1"}, {1})

Init ==
  /\ Fresh /\ pc = "start" /\ contribs = <<>>
  /\ params \in [user : BOOLEAN, file : BOOLEAN, map_file : BOOLEAN]
  /\ files \in {[email |-> e, map |-> m] :
                  e \in IF params.file /\ ~params.user
                          THEN FileStates(EmailChars, MaxRunLen) ELSE {Unreadable},
                  m \in IF params.file /\ ~params.user /\ params.map_file
                          THEN FileStates(MapChars, MaxMapLen) ELSE {Unreadable}}

\* os_stats
Next ==
  \/ DisplayUserStats(RunResponses)
  \/ GetEmails
  \/ GetEffUser
  \/ FetchUser(RunResponses)
  \/ DisplayUnexpectedInput

Spec == Init /\ [][Next]_vars

\* ------------------------------------------------------------- claims
\* The value of key k in record r, 0 when r lacks k.
ValueOf(r, k) == IF k \in DOMAIN r THEN r[k] ELSE 0

\* The sum of key k over the first n records of list.
RECURSIVE KeySum(_, _, _)
KeySum(list, k, n) == IF n = 0 THEN 0 ELSE KeySum(list, k, n - 1) + ValueOf(list[n], k)

KnownKeysOnly(list) == \A i \in 1..Len(list) : DOMAIN list[i] \subseteq Keys

\* C3: for a list of records whose keys are all among the 12 known keys, the
\* aggregate has exactly those 12 keys, and each key's value is the sum of
\* that key over the records (0 for a record without it); the empty list
\* gives the all-zero record.
C3_AggregateIsKeywiseSum ==
  (pc = "done" /\ KnownKeysOnly(contribs)) =>
    /\ aggregate.t = "dict"
    /\ DOMAIN aggregate.rec = Keys
    /\ Cardinality(DOMAIN aggregate.rec) = 12
    /\ \A k \in Keys : aggregate.rec[k] = KeySum(contribs, k, Len(contribs))
    /\ (contribs = <<>> => \A k \in Keys : aggregate.rec[k] = 0)

\* Two records share commit_count, only one has marks.
C3_Witness ==
  /\ pc = "done" /\ Len(contribs) = 2
  /\ DOMAIN contribs[1] = {"commit_count"} /\ contribs[1]["commit_count"] = 1
  /\ DOMAIN contribs[2] = {"commit_count", "marks"}
  /\ contribs[2]["commit_count"] = 1 /\ contribs[2]["marks"] = 1
  /\ aggregate.t = "dict"
  /\ aggregate.rec["commit_count"] = 2 /\ aggregate.rec["marks"] = 1
  /\ aggregate.rec["loc"] = 0

\* The list reordered by the permutation p of its indices.
Permuted(list, p) == [i \in 1..Len(list) |-> list[p[i]]]

\* C4: aggregating any permutation of a list of records gives the same
\* result as aggregating the list (the same record, or the same KeyError).
C4_AggregateIgnoresOrder ==
  pc = "done" =>
    \A p \in Permutations(1..Len(contribs)) :
      GetAggregateContributions(Permuted(contribs, p)) = aggregate

\* Two different records with a common key whose values differ.
C4_Witness ==
  /\ pc = "done" /\ Len(contribs) = 2 /\ aggregate.t = "dict"
  /\ "commit_count" \in DOMAIN contribs[1] \cap DOMAIN contribs[2]
  /\ contribs[1]["commit_count"] = 0 /\ contribs[2]["commit_count"] = 1
  /\ aggregate.rec["commit_count"] = 1

\* The response has the shape the API documents: a JSON object whose
\* contribution is an object with a marks mapping.
WellShaped(resp) ==
  /\ resp.kind = "json"
  /\ resp.contribution.t = "object"
  /\ resp.contribution.marks.t = "map"

\* C2: the fetch never raises, and it returns "absent" (None or an empty
\* value) for every failing or ill-shaped response: network error, body not
\* JSON, no contribution field, a contribution without marks, or marks that is
\* not a mapping.
C2_FetchNeverRaises ==
  \A i \in 1..Len(fetches) :
    /\ fetches[i].ret.t # "raise"
    /\ ~WellShaped(fetches[i].resp) => ~Truthy(fetches[i].ret)

\* The total of a marks mapping, vote by vote.
VoteCount(m, v) == IF v \in DOMAIN m THEN m[v] ELSE 0
MarksTotal(m) == VoteCount(m, "-1") + VoteCount(m, "1")

\* C7: for a well-shaped response the fetch returns the contribution object
\* with marks replaced by the sum of the counts of the raw marks mapping and
\* with every other field as the response has it.
C7_MarksCollapsedOthersKept ==
  \A i \in 1..Len(fetches) :
    WellShaped(fetches[i].resp) =>
      LET raw == fetches[i].resp.contribution
          ret == fetches[i].ret
      IN /\ ret.t = "dict"
         /\ DOMAIN ret.rec = DOMAIN raw.fields \cup {"marks"}
         /\ ret.rec["marks"] = MarksTotal(raw.marks.m)
         /\ \A k \in DOMAIN raw.fields : ret.rec[k] = raw.fields[k]

\* marks {"-1": 2, "1": 1} becomes 3 and commit_count 2, loc 1 stay.
C7_Witness ==
  /\ pc = "done" /\ Len(fetches) = 1
  /\ WellShaped(fetches[1].resp)
  /\ fetches[1].resp.contribution.marks.m = [v \in {"-1", "1"} |-> IF v = "-1" THEN 2 ELSE 1]
  /\ DOMAIN fetches[1].resp.contribution.fields = {"commit_count", "loc"}
  /\ fetches[1].ret.rec["marks"] = 3
  /\ fetches[1].ret.rec["commit_count"] = 2 /\ fetches[1].ret.rec["loc"] = 1
  /\ output = <<ContributionsMessage(fetches[1].ret.rec)>> /\ status = 0

\* The email contains an @.
HasAt(email) == \E i \in 1..Len(email) : email[i] = "@"

\* The text of an email before its first @.
TextBeforeAt(email) ==
  LET p == CHOOSE p \in 1..Len(email) :
             email[p] = "@" /\ \A q \in 1..(p - 1) : email[q] # "@"
  IN [i \in 1..(p - 1) |-> email[i]]

\* s without its leading, and without its trailing, whitespace.
RECURSIVE DropLeading(_)
DropLeading(s) ==
  IF s # <<>> /\ Head(s) \in Whitespace THEN DropLeading(Tail(s)) ELSE s
RECURSIVE DropTrailing(_)
DropTrailing(s) ==
  IF s # <<>> /\ s[Len(s)] \in Whitespace
    THEN DropTrailing(SubSeq(s, 1, Len(s) - 1)) ELSE s
Trimmed(s) == DropTrailing(DropLeading(s))

\* The tokens joined by commas.
RECURSIVE JoinCommas(_)
JoinCommas(tokens) ==
  IF Len(tokens) = 1 THEN tokens[1]
  ELSE tokens[1] \o <<",">> \o JoinCommas(Tail(tokens))

\* The first line of a text: up to and including its first newline.
IsFirstLine(line, text) ==
  /\ line # <<>>
  /\ line = SubSeq(text, 1, Len(line))
  /\ \A i \in 1..(Len(line) - 1) : line[i] # "\n"
  /\ line[Len(line)] = "\n" \/ Len(line) = Len(text)

\* The alias table of the run, and the canonical id it gives an identifier.
AliasTable == user_map_pairs(get_tokens(files.map).v)
Canonical(id) ==
  IF params.map_file /\ \E i \in 1..Len(AliasTable) : AliasTable[i][1] = id
    THEN LET S == {i \in 1..Len(AliasTable) : AliasTable[i][1] = id}
         IN AliasTable[CHOOSE i \in S : \A j \in S : j <= i][2]
    ELSE id

Resolved == pc = "fetch"

\* C6: when the resolver returns, the emails are the comma-delimited tokens
\* of the list's first line; each email that has an @ gives the trimmed text
\* before its first @, replaced by the alias table's canonical id when that
\* text is a key of the table and kept otherwise; the result is the set of
\* the identifiers of the emails (duplicates collapsed after substitution).
C6_ResolverResult ==
  Resolved =>
    /\ IsFirstLine(JoinCommas(emails), files.email.text)
    /\ \A i \in 1..Len(emails) : \A j \in 1..Len(emails[i]) : emails[i][j] # ","
    /\ Len(effs) = Len(emails)
    /\ \A i \in 1..Len(emails) :
         HasAt(emails[i]) => effs[i] = Canonical(Trimmed(TextBeforeAt(emails[i])))
    /\ users = {effs[i] : i \in 1..Len(effs)}

\* Two emails with different prefixes, one of them an alias of the other:
\* one identifier.
C6_Witness ==
  /\ Resolved /\ params.map_file /\ Len(emails) = 2
  /\ HasAt(emails[1]) /\ HasAt(emails[2])
  /\ Trimmed(TextBeforeAt(emails[1])) # Trimmed(TextBeforeAt(emails[2]))
  /\ users = {<<"a">>}

\* C9: an email without @ gives its whole trimmed string as identifier (put
\* through the alias table like any other).
C9_NoAtKeepsWholeString ==
  Resolved =>
    \A i \in 1..Len(emails) :
      ~HasAt(emails[i]) => effs[i] = Canonical(Trimmed(emails[i]))

\* C10 as stated: with an alias-file path the alias file is read at most
\* once in a run.
C10_AliasReadAtMostOnce == params.map_file => reads.map <= 1

\* C10 as the code has it: the alias file is read once for each email the
\* comprehension has reached, so once per email when the resolver returns,
\* and never without an alias-file path.
C10_AliasReadPerEmail ==
  /\ ~params.map_file => reads.map = 0
  /\ (params.map_file /\ pc = "resolve") => reads.map = Len(effs)
  /\ (params.map_file /\ Resolved) => reads.map = Len(emails)
  /\ (params.map_file /\ pc = "done") => reads.map \in {0, Len(effs) + 1}

\* Two emails resolved through the alias file, which was read twice.
C10_Witness ==
  /\ Resolved /\ params.map_file /\ Len(emails) = 2 /\ reads.map = 2
  /\ reads.email = 1

\* An aggregate run came to its report: every user was fetched, no exception.
AggregateReported ==
  pc = "done" /\ users # {} /\ remaining = {} /\ exc = "none"

Printed(m) == \E i \in 1..Len(output) : output[i].msg = m

\* C1 as stated: an aggregate report over zero found records prints the
\* "no contribution data" message and no "Contributions:" header.
C1_EmptyAggregatePrintsNoData ==
  (AggregateReported /\ contribs = <<>>) =>
    /\ output[Len(output)].msg = NoDataMessage.msg
    /\ ~Printed("Contributions:")

\* The sequence is strictly increasing in the order sort() uses.
IsSorted(names) ==
  \A i \in 1..Len(names) : \A j \in (i + 1)..Len(names) : LexLess(names[i], names[j])

\* C1 as the code has it: an aggregate report over zero found records prints
\* the sorted list of all users as not found, then the "Contributions:"
\* header with the record of twelve zeros, and ends with status 0.
C1_EmptyAggregatePrintsZeros ==
  (AggregateReported /\ contribs = <<>>) =>
    /\ Len(output) = 2
    /\ output[1].msg = NotFoundMessage(<<>>).msg
    /\ output[1].users = unknown /\ IsSorted(unknown)
    /\ {unknown[i] : i \in 1..Len(unknown)} = users
    /\ output[2].msg = "Contributions:"
    /\ DOMAIN output[2].data = Keys
    /\ \A k \in Keys : output[2].data[k] = 0
    /\ ~Printed(NoDataMessage.msg)
    /\ status = 0

\* Two users, neither found.
C1_Witness ==
  /\ AggregateReported /\ contribs = <<>> /\ Cardinality(users) = 2
  /\ Len(unknown) = 2 /\ Len(fetches) = 2
  /\ fetches[1].resp.kind = "network_error" /\ fetches[2].resp.kind = "json"

\* C5: an aggregate run that resolved its users fetches each of them exactly
\* once and prints its report, and then each user is either in the not-found
\* list (its fetch returned absent) or has its record among those summed,
\* never both; no fetch outcome stops the loop or the report.
C5_EveryUserFetchedAndGrouped ==
  (pc = "done" /\ users # {}) =>
    /\ Len(fetches) = Cardinality(users)
    /\ {fetches[i].user : i \in 1..Len(fetches)} = users
    /\ Printed(NotFoundMessage(<<>>).msg)
    /\ Len(unknown) + Len(contribs) = Cardinality(users)
    /\ \A i \in 1..Len(fetches) :
         IF Truthy(fetches[i].ret)
           THEN /\ \E j \in 1..Len(contribs) : contribs[j] = fetches[i].ret.rec
                /\ \A j \in 1..Len(unknown) : unknown[j] # fetches[i].user
           ELSE \E j \in 1..Len(unknown) : unknown[j] = fetches[i].user

\* A read of the email list or of the alias file failed.
ReadFailed ==
  \/ reads.email > 0 /\ ~files.email.readable
  \/ reads.map > 0 /\ ~files.map.readable

\* The run took one of the three branches of os_stats with input files that
\* could be parsed: a single-user report, an aggregate report whose users
\* were resolved, or the unexpected-input message.
NormalPath == params.user \/ ~params.file \/ users # {}

\* C8: the process ends with status 0 on every normal path, whatever the
\* fetches return, and with status 1 when a file cannot be read; then the
\* error naming the file is the last thing printed, and nothing was fetched
\* or reported.
C8_ExitStatus ==
  pc = "done" =>
    /\ ReadFailed =>
         /\ status = 1
         /\ output[Len(output)].msg = "Error reading file"
         /\ fetches = <<>>
         /\ ~Printed("Contributions:") /\ ~Printed(NoDataMessage.msg)
         /\ ~Printed(NotFoundMessage(<<>>).msg)
    /\ (~ReadFailed /\ NormalPath) => status = 0

====
